---- MODULE Spec2Model ----
(***************************************************************************)
(* Trade tracker (src/src/App.js): the in-memory event list `trades` that  *)
(* the store's snapshot listener replaces, and the aggregation code of the *)
(* views that read it: CalendarGrid, SummaryViewModal, PnlHistoryModal,    *)
(* WinRateModal, CalculatorPage and the App's aggregate statistics.        *)
(*                                                                         *)
(* Abstractions.  A date is the day number of a valid YYYY-MM-DD string;   *)
(* string order, `new Date(a) - new Date(b)` and calendar order agree on   *)
(* such strings.  A JavaScript number is an exact rational (binary         *)
(* rounding is not modelled), NaN, an infinity, or the value undefined of  *)
(* an absent field.  Document ids are not modelled: no computation reads   *)
(* them, and two documents of equal content stay two entries of the list.  *)
(***************************************************************************)
EXTENDS Integers, Sequences, FiniteSets, TLC

VARIABLES
    trades,              \* App: useState([]), the events of the last snapshot
    startingCapital,     \* App: useState(500)
    isLoading,           \* App: useState(true)
    currentMonth,        \* App: the date whose month the calendar shows
    listening,           \* the onSnapshot listener still receives events
    consoleErrors,       \* the messages console.error has been called with
    store,               \* the documents of the trades collection, as the query orders them
    adding,              \* handleAddTrade: the events it has still to add
    unhandledRejections, \* the handlers whose promise was rejected, no one catching it
    startInvestment,     \* CalculatorPage: the text of the Start Investment input
    raw,                 \* analyzeImageWithGemini: the parsed object of the response
    extractedData,       \* analyzeImageWithGemini: what it returned, once it has
    files,               \* handleFileChange: the selected files, by what becomes of each
    fileIndex,           \* handleFileChange: the file the loop is at
    awaiting,            \* handleFileChange: what the handler is waiting for
    newEvents,           \* handleFileChange: the events extracted so far
    loading,             \* AddTradeModal: useState(false)
    error,               \* AddTradeModal: useState(null)
    showModal,           \* App: showAddTradeModal
    onAddTradeArg,       \* the list onAddTrade was called with, <<>> before the call
    consoleWarnings,     \* the files console.warn has been called for
    db,                  \* App: useState(null), TRUE once setDb(firestore) was called
    userId,              \* App: useState(null), TRUE once setUserId(user.uid) was called
    initialization       \* how far the two effects of the App have come

\* the state of the App that the views read
appVars == <<trades, startingCapital, isLoading>>

\* the state of the data listener
listenerVars == <<listening, consoleErrors>>

\* the state of handleAddTrade and handleDeleteTrade
handlerVars == <<currentMonth, adding, unhandledRejections>>

\* the state of the CalculatorPage component
calculatorVars == <<startInvestment>>

\* the state of one extraction
extractionVars == <<raw, extractedData>>

\* the state of the AddTradeModal and of its handleFileChange
modalVars == <<files, fileIndex, awaiting, newEvents, loading, error, showModal,
               onAddTradeArg, consoleWarnings>>

\* the state of the Firebase initialization
firebaseVars == <<db, userId, initialization>>

\* what the snapshot listener of the App leaves alone
outsideListener == <<handlerVars, calculatorVars, extractionVars, modalVars, firebaseVars>>

vars == <<trades, startingCapital, isLoading, currentMonth, listening, consoleErrors, store,
          adding, unhandledRejections, startInvestment, raw, extractedData, files, fileIndex,
          awaiting, newEvents, loading, error, showModal, onAddTradeArg, consoleWarnings,
          db, userId, initialization>>

\* Most documents of one snapshot.
MaxDocs == 3
\* Number of distinct calendar dates the documents are drawn from.
MaxDate == 3
\* useState(500)
InitialStartingCapital == 500

\* Most documents of one snapshot while the projection is open.
MaxProjected == 2
\* Most files of one selection.
MaxFiles == 3
\* Most documents of the collection while the write handlers are followed.
MaxStored == 2
\* Days of a month of the model's calendar.
DaysPerMonth == 2

Dates == 1..MaxDate

-----------------------------------------------------------------------------
(* JavaScript values of numeric fields *)

RECURSIVE Gcd(_, _)
Gcd(a, b) == IF b = 0 THEN a ELSE Gcd(b, a % b)

Abs(x) == IF x < 0 THEN -x ELSE x

Sign(x) == IF x < 0 THEN -1 ELSE IF x > 0 THEN 1 ELSE 0

\* the finite number n/d, in lowest terms with a positive denominator
Rat(n, d) ==
    LET g == Gcd(Abs(n), Abs(d))
    IN [t |-> "num", n |-> Sign(d) * (n \div g), d |-> Abs(d) \div g]

Num(i) == [t |-> "num", n |-> i, d |-> 1]

NaN == [t |-> "nan", n |-> 0, d |-> 1]

Undefined == [t |-> "undefined", n |-> 0, d |-> 1]

\* +Infinity (s = 1) and -Infinity (s = -1)
Infinity(s) == [t |-> "inf", n |-> s, d |-> 1]

\* ToNumber of an operand of an arithmetic operator: undefined becomes NaN
ToNumber(x) == IF x.t = "undefined" THEN NaN ELSE x

\* a + b
JsAdd(a, b) ==
    LET x == ToNumber(a)
        y == ToNumber(b)
    IN IF x.t = "nan" \/ y.t = "nan" THEN NaN
       ELSE IF x.t = "inf" /\ y.t = "inf" THEN (IF x.n = y.n THEN x ELSE NaN)
       ELSE IF x.t = "inf" THEN x
       ELSE IF y.t = "inf" THEN y
       ELSE Rat(x.n * y.d + y.n * x.d, x.d * y.d)

\* a * b
JsMul(a, b) ==
    LET x == ToNumber(a)
        y == ToNumber(b)
    IN IF x.t = "nan" \/ y.t = "nan" THEN NaN
       ELSE IF x.t = "inf" \/ y.t = "inf"
            THEN (IF x.n = 0 \/ y.n = 0 THEN NaN ELSE Infinity(Sign(x.n) * Sign(y.n)))
       ELSE Rat(x.n * y.n, x.d * y.d)

\* a / b: a finite number over zero is an infinity, 0/0 is NaN
JsDiv(a, b) ==
    LET x == ToNumber(a)
        y == ToNumber(b)
    IN IF x.t = "nan" \/ y.t = "nan" THEN NaN
       ELSE IF x.t = "inf" /\ y.t = "inf" THEN NaN
       ELSE IF x.t = "inf" THEN Infinity(IF y.n < 0 THEN -x.n ELSE x.n)
       ELSE IF y.t = "inf" THEN Num(0)
       ELSE IF y.n = 0 THEN (IF x.n = 0 THEN NaN ELSE Infinity(Sign(x.n)))
       ELSE Rat(x.n * y.d, x.d * y.n)

\* a > b: false as soon as an operand is NaN
JsGt(a, b) ==
    LET x == ToNumber(a)
        y == ToNumber(b)
    IN IF x.t = "nan" \/ y.t = "nan" THEN FALSE
       ELSE IF x.t = "inf" /\ y.t = "inf" THEN x.n > y.n
       ELSE IF x.t = "inf" THEN x.n > 0
       ELSE IF y.t = "inf" THEN y.n < 0
       ELSE x.n * y.d > y.n * x.d

\* x || 0: undefined, NaN and 0 are falsy
OrZero(x) == IF x.t \in {"undefined", "nan"} \/ (x.t = "num" /\ x.n = 0) THEN Num(0) ELSE x

\* terms.reduce((sum, v) => sum + v, 0)
RECURSIVE ReduceSum(_)
ReduceSum(terms) ==
    IF Len(terms) = 0 THEN Num(0)
    ELSE JsAdd(ReduceSum(SubSeq(terms, 1, Len(terms) - 1)), terms[Len(terms)])

-----------------------------------------------------------------------------
(* JavaScript strings: sequences of one-character strings *)

DecimalDigits == <<"0", "1", "2", "3", "4", "5", "6", "7", "8", "9">>

IsDigit(c) == \E k \in 1..10 : DecimalDigits[k] = c

DigitValue(c) == (CHOOSE k \in 1..10 : DecimalDigits[k] = c) - 1

RECURSIVE Pow10(_)
Pow10(k) == IF k = 0 THEN 1 ELSE 10 * Pow10(k - 1)

\* the mathematical value of a run of decimal digits, 0 for the empty run
RECURSIVE DigitsValue(_)
DigitsValue(digits) ==
    IF Len(digits) = 0 THEN 0
    ELSE 10 * DigitsValue(SubSeq(digits, 1, Len(digits) - 1)) + DigitValue(digits[Len(digits)])

\* the first position from i on that holds no decimal digit
RECURSIVE DigitsEnd(_, _)
DigitsEnd(string, i) ==
    IF i <= Len(string) /\ IsDigit(string[i]) THEN DigitsEnd(string, i + 1) ELSE i

IsWhiteSpace(c) == c \in {" ", "\t", "\n"}

\* the first position from i on that holds no white space
RECURSIVE SpaceEnd(_, _)
SpaceEnd(string, i) ==
    IF i <= Len(string) /\ IsWhiteSpace(string[i]) THEN SpaceEnd(string, i + 1) ELSE i

\* The decimal literal that starts at position i: an optional sign, digits, and
\* an optional point with digits.  `end` is the position after it, `value` the
\* number it denotes, NaN when there is no digit.  (Exponents, hexadecimal
\* literals and the word Infinity are not read: no input of the model has them.)
DecimalLiteral(string, i) ==
    LET signed   == i <= Len(string) /\ string[i] \in {"-", "+"}
        sign     == IF i <= Len(string) /\ string[i] = "-" THEN -1 ELSE 1
        first    == IF signed THEN i + 1 ELSE i
        point    == DigitsEnd(string, first)
        hasPoint == point <= Len(string) /\ string[point] = "."
        end      == IF hasPoint THEN DigitsEnd(string, point + 1) ELSE point
        whole    == SubSeq(string, first, point - 1)
        fraction == IF hasPoint THEN SubSeq(string, point + 1, end - 1) ELSE <<>>
    IN IF Len(whole) = 0 /\ Len(fraction) = 0
       THEN [end |-> i, value |-> NaN]
       ELSE [end |-> end,
             value |-> Rat(sign * (DigitsValue(whole) * Pow10(Len(fraction)) + DigitsValue(fraction)),
                           Pow10(Len(fraction)))]

\* parseFloat(string): the longest decimal literal after leading white space,
\* whatever follows it; NaN when there is none
ParseFloat(string) == DecimalLiteral(string, SpaceEnd(string, 1)).value

\* (i).toString() of a non-negative integer
RECURSIVE NumberToString(_)
NumberToString(i) ==
    IF i < 10 THEN <<DecimalDigits[i + 1]>>
    ELSE NumberToString(i \div 10) \o <<DecimalDigits[(i % 10) + 1]>>

-----------------------------------------------------------------------------
(* Ledger events: the documents of the trades collection *)

\* A document as the snapshot listener hands it on, { id: doc.id, ...doc.data() },
\* reduced to the fields the aggregation reads.  A field the document does not
\* have is Undefined.
Event(type, date, changeValue, changePercentage, costAtOpen, endOfDayBalance) ==
    [type |-> type, date |-> date, changeValue |-> changeValue,
     changePercentage |-> changePercentage, costAtOpen |-> costAtOpen,
     endOfDayBalance |-> endOfDayBalance]

\* what normalizeExtractedData returns for a trade confirmation
TradeConfirmation(date, cost, changeValue, changePercentage) ==
    Event("TRADE_CONFIRMATION", date, Num(changeValue), Num(changePercentage),
          Num(cost), Undefined)

\* what normalizeExtractedData returns for a daily summary
DailySummary(date, changeValue, changePercentage, endOfDayBalance) ==
    Event("DAILY_SUMMARY", date, Num(changeValue), Num(changePercentage),
          Undefined, Num(endOfDayBalance))

\* The documents a snapshot can hold on one date.  The listener copies doc.data()
\* unchecked, and the collection is a public one, so next to the events this
\* program writes there are documents of another writer: one of a type the
\* program does not know, and a confirmation without a changeValue.
DocsOn(date) ==
    { TradeConfirmation(date, 100, 10, 10),
      TradeConfirmation(date, 50, -5, -10),
      TradeConfirmation(date, 0, 0, 0),
      DailySummary(date, -20, -4, 480),
      DailySummary(date, 5, 1, 505),
      Event("NOTE", date, Num(7), Num(0), Undefined, Undefined),
      Event("TRADE_CONFIRMATION", date, Undefined, Num(10), Num(100), Undefined) }

Docs == UNION { DocsOn(date) : date \in Dates }

\* query(tradesCollectionRef, orderBy("date")): ascending by date
IsOrderedByDate(docs) == \A i \in 1..(Len(docs) - 1) : docs[i].date <= docs[i + 1].date

InsertAt(s, i, e) == SubSeq(s, 1, i - 1) \o <<e>> \o SubSeq(s, i, Len(s))

RemoveAt(s, i) == SubSeq(s, 1, i - 1) \o SubSeq(s, i + 1, Len(s))

-----------------------------------------------------------------------------
(* Array helpers *)

\* a find that keeps the last match instead of stopping at the first
FindSummaryLast(dailyEvents) ==
    IF \E i \in 1..Len(dailyEvents) : dailyEvents[i].type = "DAILY_SUMMARY"
    THEN CHOOSE i \in 1..Len(dailyEvents) :
            /\ dailyEvents[i].type = "DAILY_SUMMARY"
            /\ \A j \in (i + 1)..Len(dailyEvents) : dailyEvents[j].type # "DAILY_SUMMARY"
    ELSE 0

\* dailyEvents.find(e => e.type === 'DAILY_SUMMARY'): the index of the first
\* match, 0 for undefined
FindSummary(dailyEvents) ==
    IF \E i \in 1..Len(dailyEvents) : dailyEvents[i].type = "DAILY_SUMMARY"
    THEN CHOOSE i \in 1..Len(dailyEvents) :
            /\ dailyEvents[i].type = "DAILY_SUMMARY"
            /\ \A j \in 1..(i - 1) : dailyEvents[j].type # "DAILY_SUMMARY"
    ELSE 0

\* Array.prototype.sort with the comparator (a, b) => key(a) - key(b): ascending
\* by key, elements of equal key keeping their order (the sort is stable)
ArraySort(s, keys) ==
    LET n == Len(s)
        Rank(i) == Cardinality({ j \in 1..n : keys[j] < keys[i] \/ (keys[j] = keys[i] /\ j < i) }) + 1
    IN [p \in 1..n |-> s[CHOOSE i \in 1..n : Rank(i) = p]]

\* new Date(ds).getTime(), in days
NewDate(ds) == ds

\* trades.reduce((acc, event) => { if (!acc[date]) acc[date] = []; acc[date].push(event) }, {}):
\* keys in the order they were first inserted, and the bucket of each key
RECURSIVE GroupFrom(_, _, _)
GroupFrom(events, i, acc) ==
    IF i > Len(events) THEN acc
    ELSE LET event == events[i]
             date  == event.date
             acc1  == IF date \in DOMAIN acc.buckets THEN acc
                      ELSE [keys |-> Append(acc.keys, date),
                            buckets |-> acc.buckets @@ (date :> <<>>)]
         IN GroupFrom(events, i + 1,
                      [acc1 EXCEPT !.buckets[date] = Append(@, event)])

\* a grouping that assigns instead of pushing: each bucket keeps its last event
EventsByDateKeepingLast(events) ==
    LET grouped == GroupFrom(events, 1, [keys |-> <<>>, buckets |-> <<>>])
    IN [keys |-> grouped.keys,
        buckets |-> [date \in DOMAIN grouped.buckets |->
                        <<grouped.buckets[date][Len(grouped.buckets[date])]>>]]

EventsByDate(events) == GroupFrom(events, 1, [keys |-> <<>>, buckets |-> <<>>])

ChangeValues(dailyEvents) == [i \in 1..Len(dailyEvents) |-> dailyEvents[i].changeValue]

ChangeValuesOrZero(dailyEvents) == [i \in 1..Len(dailyEvents) |-> OrZero(dailyEvents[i].changeValue)]

CostsOrZero(dailyEvents) == [i \in 1..Len(dailyEvents) |-> OrZero(dailyEvents[i].costAtOpen)]

\* the percentage without the totalCost > 0 guard
PercentUnguarded(dailyPnl, totalCost) == JsMul(JsDiv(dailyPnl, totalCost), Num(100))

\* (dailyPnl / totalCost) * 100 when totalCost > 0, else the initial 0
PercentOfCost(dailyPnl, totalCost) ==
    IF JsGt(totalCost, Num(0)) THEN JsMul(JsDiv(dailyPnl, totalCost), Num(100)) ELSE Num(0)

-----------------------------------------------------------------------------
(* CalendarGrid: what one day cell resolves *)

\* trades.filter(trade => isSameDay(parseISO(trade.date), day))
GetTradesForDay(events, day) == SelectSeq(events, LAMBDA trade : trade.date = day)

\* the cell of `day`: hasEvents, dailyPnl and dailyTotalPercent
CalendarDay(events, day) ==
    LET dailyEvents  == GetTradesForDay(events, day)
        hasEvents    == Len(dailyEvents) > 0
        summaryEvent == FindSummary(dailyEvents)
        sumPnl       == ReduceSum(ChangeValues(dailyEvents))
        totalCost    == ReduceSum(CostsOrZero(dailyEvents))
    IN IF ~hasEvents
       THEN [hasEvents |-> FALSE, dailyPnl |-> Num(0), dailyTotalPercent |-> Num(0)]
       ELSE IF summaryEvent # 0
       THEN [hasEvents |-> TRUE,
             dailyPnl |-> dailyEvents[summaryEvent].changeValue,
             dailyTotalPercent |-> dailyEvents[summaryEvent].changePercentage]
       ELSE [hasEvents |-> TRUE,
             dailyPnl |-> sumPnl,
             dailyTotalPercent |-> PercentOfCost(sumPnl, totalCost)]

-----------------------------------------------------------------------------
(* SummaryViewModal: the totals of the selected date *)

SummaryDailyTotalPnl(dailyEvents) ==
    LET summary == FindSummary(dailyEvents)
    IN IF summary # 0 THEN dailyEvents[summary].changeValue
       ELSE ReduceSum(ChangeValues(dailyEvents))

SummaryDailyTotalPercent(dailyEvents) ==
    LET summary        == FindSummary(dailyEvents)
        dailyTotalCost == ReduceSum(CostsOrZero(dailyEvents))
    IN IF summary # 0 THEN dailyEvents[summary].changePercentage
       ELSE PercentOfCost(SummaryDailyTotalPnl(dailyEvents), dailyTotalCost)

SummaryViewModal(events, selectedDate) ==
    LET dailyEvents == GetTradesForDay(events, selectedDate)
    IN [dailyTotalPnl |-> SummaryDailyTotalPnl(dailyEvents),
        dailyTotalPercent |-> SummaryDailyTotalPercent(dailyEvents)]

-----------------------------------------------------------------------------
(* CalculatorPage: what the projection resolves for one date *)

\* dailyEvents.reduce((sum, event) => sum + (event.changeValue || 0), 0), computed
\* on a date without a summary
CalculatorDailyPnl(dailyEvents) == ReduceSum(ChangeValuesOrZero(dailyEvents))

\* dailyPercentChange of one date
CalculatorDay(dailyEvents) ==
    LET summaryEvent == FindSummary(dailyEvents)
        dailyCost    == ReduceSum(CostsOrZero(dailyEvents))
    IN IF summaryEvent # 0 THEN dailyEvents[summaryEvent].changePercentage
       ELSE PercentOfCost(CalculatorDailyPnl(dailyEvents), dailyCost)

-----------------------------------------------------------------------------
(* PnlHistoryModal: the account history *)

\* summaryEvent ? summaryEvent.changeValue : dailyEvents.reduce(... (event.changeValue || 0))
HistoryDailyPnl(dailyEvents) ==
    LET summaryEvent == FindSummary(dailyEvents)
    IN IF summaryEvent # 0 THEN dailyEvents[summaryEvent].changeValue
       ELSE ReduceSum(ChangeValuesOrZero(dailyEvents))

\* an update that accumulates the day's P/L on a summary date as well
HistoryBalanceAccumulates(runningBalance, dailyEvents) ==
    JsAdd(runningBalance, HistoryDailyPnl(dailyEvents))

\* the running balance after the date of dailyEvents
HistoryBalanceAfter(runningBalance, dailyEvents) ==
    LET summaryEvent == FindSummary(dailyEvents)
    IN IF summaryEvent # 0 THEN dailyEvents[summaryEvent].endOfDayBalance
       ELSE JsAdd(runningBalance, HistoryDailyPnl(dailyEvents))

\* { ...event, endOfDayBalance: runningBalance } for every event of the date
AnnotateDay(dailyEvents, runningBalance) ==
    [i \in 1..Len(dailyEvents) |-> [dailyEvents[i] EXCEPT !.endOfDayBalance = runningBalance]]

\* the keys sorted with the comparator reversed, new Date(b) - new Date(a)
SortedDatesDescending(eventsByDate) ==
    ArraySort(eventsByDate.keys,
              [i \in 1..Len(eventsByDate.keys) |-> 0 - NewDate(eventsByDate.keys[i])])

\* Object.keys(eventsByDate).sort((a, b) => new Date(a) - new Date(b))
SortedDates(eventsByDate) ==
    ArraySort(eventsByDate.keys,
              [i \in 1..Len(eventsByDate.keys) |-> NewDate(eventsByDate.keys[i])])

\* sortedDates.forEach(date => ...), from the k-th date on
RECURSIVE HistoryForEach(_, _, _, _, _)
HistoryForEach(eventsByDate, sortedDates, k, runningBalance, historyItems) ==
    IF k > Len(sortedDates) THEN historyItems
    ELSE LET dailyEvents == eventsByDate.buckets[sortedDates[k]]
             balance     == HistoryBalanceAfter(runningBalance, dailyEvents)
         IN HistoryForEach(eventsByDate, sortedDates, k + 1, balance,
                           historyItems \o AnnotateDay(dailyEvents, balance))

\* historyItems as the forEach leaves it, before the final sort
HistoryItems(events, capital) ==
    LET eventsByDate == EventsByDate(events)
    IN HistoryForEach(eventsByDate, SortedDates(eventsByDate), 1, Num(capital), <<>>)

\* the items sorted with the comparator reversed, new Date(a.date) - new Date(b.date)
SortHistoryAscending(historyItems) ==
    ArraySort(historyItems, [i \in 1..Len(historyItems) |-> NewDate(historyItems[i].date)])

\* historyItems.sort((a, b) => new Date(b.date) - new Date(a.date))
SortHistory(historyItems) ==
    ArraySort(historyItems, [i \in 1..Len(historyItems) |-> 0 - NewDate(historyItems[i].date)])

\* the memoized history of the modal
PnlHistory(events, capital) ==
    IF Len(events) = 0 THEN <<>> ELSE SortHistory(HistoryItems(events, capital))

-----------------------------------------------------------------------------
(* WinRateModal *)

\* one entry of pnlList: { date, dailyPnl, isWin: dailyPnl > 0 }
WinRateEntry(date, dailyEvents) ==
    LET dailyPnl == HistoryDailyPnl(dailyEvents)
    IN [date |-> date, dailyPnl |-> dailyPnl, isWin |-> JsGt(dailyPnl, Num(0))]

\* totalDays > 0 ? (winning / totalDays) * 100 : 0
WinRateOf(winning, totalDays) ==
    IF totalDays > 0 THEN JsMul(JsDiv(Num(winning), Num(totalDays)), Num(100)) ELSE Num(0)

WinRateModal(events) ==
    LET eventsByDate == EventsByDate(events)
        keys     == eventsByDate.keys
        unsorted == [i \in 1..Len(keys) |-> WinRateEntry(keys[i], eventsByDate.buckets[keys[i]])]
        pnlList  == ArraySort(unsorted, [i \in 1..Len(keys) |-> NewDate(unsorted[i].date)])
        totalDays == Len(pnlList)
        winning  == Len(SelectSeq(pnlList, LAMBDA d : d.isWin))
    IN [dailyPnlList |-> pnlList, winningDays |-> winning,
        totalTradingDays |-> totalDays, winRate |-> WinRateOf(winning, totalDays)]

-----------------------------------------------------------------------------
(* CalculatorPage: the compounded projection *)

\* a - b
JsSub(a, b) == JsAdd(a, JsMul(Num(-1), b))

\* a guard that lets a negative amount through
IsRejectedOnlyIfNaN(startingAmount) == startingAmount.t = "nan"

\* isNaN(startingAmount) || startingAmount < 0
IsRejected(startingAmount) ==
    startingAmount.t = "nan" \/ JsGt(Num(0), startingAmount)

\* an update that adds the percentage to the balance instead of compounding it
CompoundAdding(runningBalance, dailyPercentChange) ==
    JsAdd(runningBalance, dailyPercentChange)

\* runningBalance *= (1 + dailyPercentChange / 100)
Compound(runningBalance, dailyPercentChange) ==
    JsMul(runningBalance, JsAdd(Num(1), JsDiv(dailyPercentChange, Num(100))))

\* sortedDates.forEach(date => ...), from the k-th date on: the final runningBalance
RECURSIVE ProjectionForEach(_, _, _, _)
ProjectionForEach(eventsByDate, sortedDates, k, runningBalance) ==
    IF k > Len(sortedDates) THEN runningBalance
    ELSE ProjectionForEach(eventsByDate, sortedDates, k + 1,
                           Compound(runningBalance,
                                    CalculatorDay(eventsByDate.buckets[sortedDates[k]])))

\* the memoized { finalBalance, totalProfit, totalPercentage } of the page
CalculatorPage(events, investment) ==
    LET startingAmount  == ParseFloat(investment)
        eventsByDate    == EventsByDate(events)
        finalBalanceVal == ProjectionForEach(eventsByDate, SortedDates(eventsByDate), 1,
                                             startingAmount)
        totalProfitVal  == JsSub(finalBalanceVal, startingAmount)
    IN IF IsRejected(startingAmount)
       THEN [finalBalance |-> Num(0), totalProfit |-> Num(0), totalPercentage |-> Num(0)]
       ELSE [finalBalance |-> finalBalanceVal,
             totalProfit |-> totalProfitVal,
             totalPercentage |-> IF JsGt(startingAmount, Num(0))
                                 THEN JsMul(JsDiv(totalProfitVal, startingAmount), Num(100))
                                 ELSE Num(0)]

-----------------------------------------------------------------------------
(* App: the aggregate statistics *)

\* the changeValue || 0 of the TRADE_CONFIRMATION events, other types adding nothing
ConfirmationValues(dailyEvents) ==
    ChangeValuesOrZero(SelectSeq(dailyEvents, LAMBDA event : event.type = "TRADE_CONFIRMATION"))

\* a resolver that adds the confirmations of a date to its summary
AggregateDailyPnlAddsAll(dailyEvents) ==
    LET summaryEvent == FindSummary(dailyEvents)
    IN IF summaryEvent # 0
       THEN JsAdd(dailyEvents[summaryEvent].changeValue, ReduceSum(ConfirmationValues(dailyEvents)))
       ELSE ReduceSum(ConfirmationValues(dailyEvents))

\* dailyPnl (and pnlForDay) of one date
AggregateDailyPnl(dailyEvents) ==
    LET summaryEvent == FindSummary(dailyEvents)
    IN IF summaryEvent # 0 THEN dailyEvents[summaryEvent].changeValue
       ELSE ReduceSum(ConfirmationValues(dailyEvents))

\* for (const date in eventsByDate) totalPnl += dailyPnl
TotalPnl(eventsByDate) ==
    ReduceSum([i \in 1..Len(eventsByDate.keys) |->
                  AggregateDailyPnl(eventsByDate.buckets[eventsByDate.keys[i]])])

\* the summaries sorted with the comparator reversed, new Date(a.date) - new Date(b.date)
SummariesEarliestFirst(events) ==
    LET summaries == SelectSeq(events, LAMBDA t : t.type = "DAILY_SUMMARY")
    IN ArraySort(summaries, [i \in 1..Len(summaries) |-> NewDate(summaries[i].date)])

\* trades.filter(t => t.type === 'DAILY_SUMMARY').sort((a, b) => new Date(b.date) - new Date(a.date)),
\* of which [0] is latestSummary
SummariesLatestFirst(events) ==
    LET summaries == SelectSeq(events, LAMBDA t : t.type = "DAILY_SUMMARY")
    IN ArraySort(summaries, [i \in 1..Len(summaries) |-> 0 - NewDate(summaries[i].date)])

\* latestSummary ? latestSummary.endOfDayBalance : startingCapital + totalPnl
BalanceFromTrades(events, capital, totalPnl) ==
    LET sorted == SummariesLatestFirst(events)
    IN IF Len(sorted) > 0 THEN sorted[1].endOfDayBalance
       ELSE JsAdd(Num(capital), totalPnl)

\* a count that takes pnlForDay >= 0 for a win
WinningDaysOrFlat(eventsByDate) ==
    Cardinality({ i \in 1..Len(eventsByDate.keys) :
                    LET pnlForDay == AggregateDailyPnl(eventsByDate.buckets[eventsByDate.keys[i]])
                    IN JsGt(pnlForDay, Num(0)) \/ pnlForDay = Num(0) })

\* for (const date in eventsByDate) if (pnlForDay > 0) winningDays++
WinningDays(eventsByDate) ==
    Cardinality({ i \in 1..Len(eventsByDate.keys) :
                    JsGt(AggregateDailyPnl(eventsByDate.buckets[eventsByDate.keys[i]]), Num(0)) })

AggregateStats(events, capital) ==
    LET eventsByDate == EventsByDate(events)
        totalPnl     == TotalPnl(eventsByDate)
        tradingDays  == Len(eventsByDate.keys)
    IN [pnlFromTrades |-> totalPnl,
        balanceFromTrades |-> BalanceFromTrades(events, capital, totalPnl),
        winRate |-> WinRateOf(WinningDays(eventsByDate), tradingDays)]

-----------------------------------------------------------------------------
(* JavaScript values of the fields of a parsed response *)

\* A value is undefined (the field is absent), null, a number or a string.
Missing == [k |-> "undefined", num |-> Undefined, str |-> <<>>]

Null == [k |-> "null", num |-> Num(0), str |-> <<>>]

JsNumber(x) == [k |-> "number", num |-> x, str |-> <<>>]

JsString(chars) == [k |-> "string", num |-> NaN, str |-> chars]

\* a string the code only compares as a whole, such as 'DAILY_SUMMARY'
Name(word) == JsString(<<word>>)

\* the digits without the zeros at their end
RECURSIVE WithoutTrailingZeros(_)
WithoutTrailingZeros(digits) ==
    IF Len(digits) > 0 /\ digits[Len(digits)] = "0"
    THEN WithoutTrailingZeros(SubSeq(digits, 1, Len(digits) - 1))
    ELSE digits

\* String(x) of a number: NaN, or a finite number of at most three decimals
NumberString(x) ==
    IF x.t = "nan" THEN <<"N", "a", "N">>
    ELSE LET thousandths == Abs(x.n) * (1000 \div x.d)
             part        == thousandths % 1000
             decimals    == WithoutTrailingZeros(<<DecimalDigits[(part \div 100) + 1],
                                                   DecimalDigits[((part \div 10) % 10) + 1],
                                                   DecimalDigits[(part % 10) + 1]>>)
         IN (IF x.n < 0 THEN <<"-">> ELSE <<>>)
            \o NumberToString(thousandths \div 1000)
            \o (IF Len(decimals) = 0 THEN <<>> ELSE <<".">> \o decimals)

\* String(x)
String(x) ==
    IF x.k = "string" THEN x.str
    ELSE IF x.k = "number" THEN NumberString(x.num)
    ELSE IF x.k = "null" THEN <<"n", "u", "l", "l">>
    ELSE <<"u", "n", "d", "e", "f", "i", "n", "e", "d">>

\* Number(string): 0 for the empty string, the decimal literal the whole string
\* is, NaN for any other text
StringToNumber(string) ==
    LET first   == SpaceEnd(string, 1)
        literal == DecimalLiteral(string, first)
    IN IF first > Len(string) THEN Num(0)
       ELSE IF literal.value.t = "num" /\ SpaceEnd(string, literal.end) > Len(string)
            THEN literal.value
       ELSE NaN

\* x is falsy: undefined, null, "", 0 or NaN
IsFalsy(x) ==
    \/ x.k \in {"undefined", "null"}
    \/ x.k = "string" /\ x.str = <<>>
    \/ x.k = "number" /\ (x.num.t = "nan" \/ x.num = Num(0))

\* Math.abs(x)
MathAbs(x) == IF x.t = "num" THEN Rat(Abs(x.n), x.d) ELSE IF x.t = "inf" THEN Infinity(1) ELSE NaN

\* Math.round(x): the nearest integer, a half rounding up
MathRound(x) == IF x.t = "num" THEN Num((2 * x.n + x.d) \div (2 * x.d)) ELSE x

\* Number.isFinite(x)
IsFinite(x) == x.t = "num"

-----------------------------------------------------------------------------
(* Calendar dates as strings *)

IsLeapYear(y) == (y % 4 = 0 /\ y % 100 # 0) \/ y % 400 = 0

DaysInMonth(y, m) ==
    IF m = 2 THEN (IF IsLeapYear(y) THEN 29 ELSE 28)
    ELSE IF m \in {4, 6, 9, 11} THEN 30
    ELSE 31

\* /^\d{4}-\d{2}-\d{2}$/.test(string)
IsISOShaped(string) ==
    /\ Len(string) = 10
    /\ \A i \in {1, 2, 3, 4, 6, 7, 9, 10} : IsDigit(string[i])
    /\ string[5] = "-"
    /\ string[8] = "-"

\* String(n).padStart(2, "0")
PadStart2(n) == IF n < 10 THEN <<"0">> \o NumberToString(n) ELSE NumberToString(n)

\* `${y}-${String(m).padStart(2,"0")}-${String(day).padStart(2,"0")}`
FormatDate(y, m, day) == NumberToString(y) \o <<"-">> \o PadStart2(m) \o <<"-">> \o PadStart2(day)

\* new Date(string) of a text that is not ISO shaped.  What a text denotes is left
\* to the implementation; modelled is the form month/day/year of a day that
\* exists, read as local time, and Invalid Date for texts of no date form.
\* The result is [valid, y, m, day], the local calendar fields of the Date.
NewDateOf(string) ==
    LET slash1 == DigitsEnd(string, 1)
        slash2 == DigitsEnd(string, slash1 + 1)
        end    == DigitsEnd(string, slash2 + 1)
        m      == DigitsValue(SubSeq(string, 1, slash1 - 1))
        day    == DigitsValue(SubSeq(string, slash1 + 1, slash2 - 1))
        y      == DigitsValue(SubSeq(string, slash2 + 1, end - 1))
        formed == /\ 1 < slash1 /\ slash1 < Len(string) /\ string[slash1] = "/"
                  /\ slash1 + 1 < slash2 /\ slash2 < Len(string) /\ string[slash2] = "/"
                  /\ slash2 + 1 < end /\ end = Len(string) + 1
    IN IF formed /\ m \in 1..12 /\ day \in 1..DaysInMonth(y, m)
       THEN [valid |-> TRUE, y |-> y, m |-> m, day |-> day]
       ELSE [valid |-> FALSE, y |-> 0, m |-> 0, day |-> 0]

\* the date of the run, as new Date() and the template of toISODate give it
Today == <<"2", "0", "2", "6", "-", "1", "1", "-", "0", "6">>

-----------------------------------------------------------------------------
(* normalizeExtractedData *)

\* An object of the response, and the event the normalization returns: the
\* fields the code reads or writes, Missing for a field the object lacks.
Object(imageType, type, ticker, date, costAtOpen, creditAtClose, changeValue, changePercentage, endOfDayBalance) ==
    [imageType |-> imageType, type |-> type, ticker |-> ticker, date |-> date,
     costAtOpen |-> costAtOpen, creditAtClose |-> creditAtClose,
     changeValue |-> changeValue, changePercentage |-> changePercentage,
     endOfDayBalance |-> endOfDayBalance]

\* string.replace(/[,$%\s+]/g, "")
Strip(string) ==
    SelectSeq(string, LAMBDA c : c \notin {",", "$", "%", "+"} /\ ~IsWhiteSpace(c))

\* n(x)
N(x) ==
    IF x.k \in {"undefined", "null"} \/ (x.k = "string" /\ x.str = <<>>) THEN Num(0)
    ELSE StringToNumber(Strip(String(x)))

\* two(x) = Math.round((x + Number.EPSILON) * 100) / 100.  Number.EPSILON, 2^-52,
\* counters the binary representation error of x; on the exact amounts of the
\* model, which are never that close below a half of a hundredth, it changes
\* no rounding and is left out.
Two(x) == JsDiv(MathRound(JsMul(x, Num(100))), Num(100))

\* new Date(ds): the text of a string; null is the epoch and a number a count of
\* milliseconds, within 1970 for the amounts of the model; undefined is invalid
NewDateOfValue(ds) ==
    IF ds.k = "string" THEN NewDateOf(ds.str)
    ELSE IF ds.k = "null" \/ (ds.k = "number" /\ ds.num.t = "num")
         THEN [valid |-> TRUE, y |-> 1970, m |-> 1, day |-> 1]
    ELSE [valid |-> FALSE, y |-> 0, m |-> 0, day |-> 0]

\* toISODate(ds)
ToISODate(ds) ==
    LET d == NewDateOfValue(ds)
    IN IF IsISOShaped(String(ds)) THEN ds
       ELSE IF d.valid /\ d.y > 1980 THEN JsString(FormatDate(d.y, d.m, d.day))
       ELSE JsString(Today)

LowerCase == <<"a", "b", "c", "d", "e", "f", "g", "h", "i", "j", "k", "l", "m",
               "n", "o", "p", "q", "r", "s", "t", "u", "v", "w", "x", "y", "z">>

UpperCase == <<"A", "B", "C", "D", "E", "F", "G", "H", "I", "J", "K", "L", "M",
               "N", "O", "P", "Q", "R", "S", "T", "U", "V", "W", "X", "Y", "Z">>

\* string.toUpperCase()
ToUpperCase(string) ==
    [i \in 1..Len(string) |->
        IF \E k \in 1..26 : LowerCase[k] = string[i]
        THEN UpperCase[CHOOSE k \in 1..26 : LowerCase[k] = string[i]]
        ELSE string[i]]

\* string.trim()
RECURSIVE Trim(_)
Trim(string) ==
    IF Len(string) = 0 THEN string
    ELSE IF IsWhiteSpace(string[1]) THEN Trim(Tail(string))
    ELSE IF IsWhiteSpace(string[Len(string)]) THEN Trim(SubSeq(string, 1, Len(string) - 1))
    ELSE string

\* x || ""
OrEmpty(x) == IF IsFalsy(x) THEN JsString(<<>>) ELSE x

\* the branch of t.imageType === 'DAILY_SUMMARY'
NormalizeDailySummary(t) ==
    Object(Missing, Name("DAILY_SUMMARY"), Missing, ToISODate(t.date), Missing, Missing,
           JsNumber(Two(N(t.changeValue))),
           JsNumber(Two(N(t.changePercentage))),
           JsNumber(Two(N(t.endOfDayBalance))))

\* the fallthrough branch
NormalizeTradeConfirmation(t) ==
    LET cost0   == MathAbs(N(t.costAtOpen))
        credit0 == MathAbs(N(t.creditAtClose))
        value0  == IF IsFinite(N(t.changeValue)) THEN N(t.changeValue) ELSE Num(0)
        pct0    == IF IsFinite(N(t.changePercentage)) THEN N(t.changePercentage) ELSE Num(0)
        derive  == cost0 = Num(0) /\ pct0 # Num(0) /\ IsFinite(pct0)
        cost    == IF derive THEN MathAbs(JsDiv(value0, JsDiv(pct0, Num(100)))) ELSE cost0
        credit  == IF derive THEN JsAdd(cost, value0) ELSE credit0
        changeValue ==
            IF ~IsFinite(value0) \/ (value0 = Num(0) /\ JsGt(credit, Num(0)) /\ JsGt(cost, Num(0)))
            THEN Two(JsSub(credit, cost))
            ELSE value0
        changePercentage ==
            IF ~IsFinite(pct0) \/ pct0 = Num(0)
            THEN (IF JsGt(cost, Num(0)) THEN JsMul(JsDiv(changeValue, cost), Num(100)) ELSE Num(0))
            ELSE pct0
    IN Object(Missing, Name("TRADE_CONFIRMATION"),
              JsString(ToUpperCase(Trim(String(OrEmpty(t.ticker))))),
              ToISODate(OrEmpty(t.date)),
              JsNumber(Two(cost)), JsNumber(Two(credit)),
              JsNumber(Two(changeValue)), JsNumber(Two(changePercentage)),
              Missing)

NormalizeExtractedData(t) ==
    IF t.imageType = Name("DAILY_SUMMARY") THEN NormalizeDailySummary(t)
    ELSE NormalizeTradeConfirmation(t)

\* an object without any of the fields
EmptyObject ==
    Object(Missing, Missing, Missing, Missing, Missing, Missing, Missing, Missing, Missing)

\* no image is being analysed
NoExtraction ==
    /\ raw = EmptyObject
    /\ extractedData = <<>>

-----------------------------------------------------------------------------
(* The state machine: the App's state and the snapshot listener *)

\* The App once the data listener is subscribed (db and userId are set): no
\* snapshot has arrived, and the effect has set isLoading.
AppMounted ==
    /\ db = TRUE
    /\ userId = TRUE
    /\ initialization = "subscribed"
    /\ trades = <<>>
    /\ startingCapital = InitialStartingCapital
    /\ isLoading = TRUE
    /\ listening = TRUE
    /\ consoleErrors = {}
    /\ store = <<>>

\* no write handler is running; the calendar shows the month of the run, which
\* is none of the dates of the documents
NoWrite ==
    /\ currentMonth = 0
    /\ adding = <<>>
    /\ unhandledRejections = {}

\* the CalculatorPage as it is mounted: useState(startingCapital.toString())
CalculatorMounted == startInvestment = NumberToString(InitialStartingCapital)

\* the AddTradeModal is closed
NoUpload ==
    /\ files = <<>>
    /\ fileIndex = 0
    /\ awaiting = "none"
    /\ newEvents = <<>>
    /\ loading = FALSE
    /\ error = "null"
    /\ showModal = FALSE
    /\ onAddTradeArg = <<>>
    /\ consoleWarnings = {}

Init ==
    /\ AppMounted
    /\ NoWrite
    /\ CalculatorMounted
    /\ NoExtraction
    /\ NoUpload

\* a listener that appends the documents of the snapshot to the list it holds
OnSnapshotMerging(docs) ==
    /\ listening
    /\ trades' = trades \o docs
    /\ isLoading' = FALSE
    /\ UNCHANGED <<startingCapital, listenerVars, outsideListener>>

\* onSnapshot(q, (querySnapshot) => { setTrades(querySnapshot.docs.map(...)); setIsLoading(false) })
OnSnapshot(docs) ==
    /\ listening
    /\ trades' = docs
    /\ isLoading' = FALSE
    /\ UNCHANGED <<startingCapital, listenerVars, outsideListener>>

\* a document is added to the collection, by this program or by another writer,
\* at a place its date allows, and the snapshot of the complete list arrives
SnapshotAfterAdd ==
    /\ Len(store) < MaxDocs
    /\ \E doc \in Docs, i \in 1..(Len(store) + 1) :
          /\ IsOrderedByDate(InsertAt(store, i, doc))
          /\ store' = InsertAt(store, i, doc)
          /\ OnSnapshot(InsertAt(store, i, doc))

\* a document is deleted from the collection, and the snapshot arrives
SnapshotAfterDelete ==
    \E i \in 1..Len(store) :
        /\ store' = RemoveAt(store, i)
        /\ OnSnapshot(RemoveAt(store, i))

\* onSnapshot(q, ..., (error) => { console.error(...); setIsLoading(false) }); the
\* listener receives no event after an error
OnSnapshotError ==
    /\ listening
    /\ listening' = FALSE
    /\ consoleErrors' = consoleErrors \cup {"Error fetching trades:"}
    /\ isLoading' = FALSE
    /\ UNCHANGED <<trades, startingCapital, store, outsideListener>>

Next ==
    \/ SnapshotAfterAdd
    \/ SnapshotAfterDelete
    \/ OnSnapshotError

Spec == Init /\ [][Next]_vars

-----------------------------------------------------------------------------
(* The state machine of the open CalculatorPage *)

\* What the Start Investment input can hold.  It is an <input type="number">:
\* its value is the text of a valid number or, for any other typed text, "".
StartInvestments ==
    { NumberToString(InitialStartingCapital),
      <<"1", "0", "0", "0">>,
      <<"0">>,
      <<"-", "5">>,
      <<"2", ".", "5">>,
      <<>> }

\* The events of a snapshot while the page is open: the documents of Docs and a
\* daily summary whose changePercentage is NaN, which is what
\* normalizeExtractedData stores for a percentage text that is no number.
ProjectedDocs ==
    Docs \cup { Event("DAILY_SUMMARY", date, Num(5), NaN, Undefined, Num(505)) : date \in Dates }

\* the page is mounted with the trades of the App: useState(startingCapital.toString())
InitCalculator ==
    /\ AppMounted
    /\ NoWrite
    /\ startInvestment = NumberToString(startingCapital)
    /\ NoExtraction
    /\ NoUpload

\* onChange={(e) => setStartInvestment(e.target.value)}
SetStartInvestment ==
    /\ \E value \in StartInvestments : startInvestment' = value
    /\ UNCHANGED <<appVars, listenerVars, store, handlerVars, extractionVars, modalVars, firebaseVars>>

\* a document is added and the snapshot arrives, the page being open
ProjectedSnapshotAfterAdd ==
    /\ Len(store) < MaxProjected
    /\ \E doc \in ProjectedDocs, i \in 1..(Len(store) + 1) :
          /\ IsOrderedByDate(InsertAt(store, i, doc))
          /\ store' = InsertAt(store, i, doc)
          /\ OnSnapshot(InsertAt(store, i, doc))

NextCalculator ==
    \/ SetStartInvestment
    \/ ProjectedSnapshotAfterAdd
    \/ SnapshotAfterDelete
    \/ OnSnapshotError

SpecCalculator == InitCalculator /\ [][NextCalculator]_vars

-----------------------------------------------------------------------------
(* The state machine of one extraction: analyzeImageWithGemini from JSON.parse on *)

\* The date texts a response can carry: a date in the form asked for, a text of
\* that form that names no day, dates in another form of this and of an earlier
\* century, a text that is no date, and no date at all.
ResponseDates ==
    { JsString(<<"2", "0", "2", "4", "-", "0", "1", "-", "0", "2">>),
      JsString(<<"2", "0", "2", "4", "-", "1", "3", "-", "4", "5">>),
      JsString(<<"1", "/", "5", "/", "2", "0", "2", "4">>),
      JsString(<<"1", "/", "5", "/", "1", "9", "7", "5">>),
      JsString(<<"t", "o", "d", "a", "y">>),
      Null,
      Missing }

NotANumber == JsString(<<"N", "/", "A">>)

ResponseCosts == { Missing, JsNumber(Num(0)), JsNumber(Num(100)), NotANumber }

ResponseCredits ==
    { Missing, JsNumber(Num(110)), JsString(<<"$", "1", ",", "2", "3", "4", ".", "5", "0">>) }

ResponseValues ==
    { Missing, JsNumber(Num(0)), JsNumber(Num(10)), JsNumber(Num(-50)), NotANumber }

ResponsePercentages ==
    { Missing, JsNumber(Num(0)), JsNumber(Num(10)), JsNumber(Num(-200)),
      JsString(<<"-", "5", "%">>) }

ResponseBalances == { Missing, JsNumber(Rat(96131, 200)), NotANumber }

ResponseTickers == { Missing, JsString(<<" ", "a", "a", "p", "l">>) }

\* JSON.parse(text) of a response: an object of either image type
Responses ==
    { Object(Name("DAILY_SUMMARY"), Missing, Missing, date, Missing, Missing, value, pct, balance) :
        date \in ResponseDates, value \in ResponseValues, pct \in ResponsePercentages,
        balance \in ResponseBalances }
    \cup
    { Object(Name("TRADE_CONFIRMATION"), Missing, ticker, date, cost, credit, value, pct, Null) :
        ticker \in ResponseTickers, date \in ResponseDates, cost \in ResponseCosts,
        credit \in ResponseCredits, value \in ResponseValues, pct \in ResponsePercentages }

\* const raw = JSON.parse(text)
InitExtraction ==
    /\ AppMounted
    /\ NoWrite
    /\ CalculatorMounted
    /\ raw \in Responses
    /\ extractedData = <<>>
    /\ NoUpload

\* return raw ? normalizeExtractedData(raw) : null, raw being an object
Normalize ==
    /\ extractedData = <<>>
    /\ extractedData' = <<NormalizeExtractedData(raw)>>
    /\ UNCHANGED <<appVars, listenerVars, store, handlerVars, calculatorVars, raw, modalVars,
                   firebaseVars>>

NextExtraction == Normalize

SpecExtraction == InitExtraction /\ [][NextExtraction]_vars

-----------------------------------------------------------------------------
(* The state machine of one upload: handleFileChange of the AddTradeModal *)

\* What becomes of a selected file: the FileReader fails on it; the request of
\* its analysis fails (fetch rejects or the status is not ok); the response
\* carries no text; the text is the object {} without any field; the text is
\* the object of a trade confirmation.
FileKinds == {"unreadable", "unreachable", "noText", "noFields", "event"}

\* Array.from(event.target.files || []): the selections of MaxFiles files at most
Selections == UNION { [1..n -> FileKinds] : n \in 0..MaxFiles }

\* JSON.parse(text) of the response for the i-th image: the object of a
\* confirmation, the images differing in their amounts, or the object {}
ParsedResponse(kind, i) ==
    IF kind = "event"
    THEN Object(Name("TRADE_CONFIRMATION"), Missing, JsString(<<"a", "a", "p", "l">>),
                JsString(<<"2", "0", "2", "4", "-", "0", "1", "-", "0", "2">>),
                JsNumber(Num(100 * i)), JsNumber(Num(100 * i + 10)), JsNumber(Num(10)),
                Missing, Null)
    ELSE EmptyObject

\* analyzeImageWithGemini(base64String) for the i-th file: <<>> for null, else
\* the event.  `raw ? normalizeExtractedData(raw) : null` takes {} as truthy.
AnalyzeImageWithGemini(kind, i) ==
    IF kind \in {"event", "noFields"}
    THEN <<NormalizeExtractedData(ParsedResponse(kind, i))>>
    ELSE <<>>

\* the modal is open and the user has closed the file dialog on a selection
InitUpload ==
    /\ AppMounted
    /\ NoWrite
    /\ CalculatorMounted
    /\ NoExtraction
    /\ files \in Selections
    /\ fileIndex = 0
    /\ awaiting = "change"
    /\ newEvents = <<>>
    /\ loading = FALSE
    /\ error = "null"
    /\ showModal = TRUE
    /\ onAddTradeArg = <<>>
    /\ consoleWarnings = {}

\* handleFileChange up to its first await: the early return, setLoading(true),
\* setError(null), const newEvents = [] and the FileReader of the first file
HandleFileChange ==
    /\ awaiting = "change"
    /\ IF Len(files) = 0
       THEN /\ awaiting' = "none"
            /\ UNCHANGED <<fileIndex, newEvents, loading, error>>
       ELSE /\ loading' = TRUE
            /\ error' = "null"
            /\ newEvents' = <<>>
            /\ fileIndex' = 1
            /\ awaiting' = "reader"
    /\ UNCHANGED <<appVars, listenerVars, store, handlerVars, calculatorVars, extractionVars,
                   files, showModal, onAddTradeArg, consoleWarnings, firebaseVars>>

\* The FileReader of the current file settles.  reader.onload resolves and the
\* analysis is called; reader.onerror rejects, the await throws inside the try
\* that holds the loop: catch logs and sets the error, finally clears loading,
\* and the handler returns.
ReaderSettles ==
    /\ awaiting = "reader"
    /\ IF files[fileIndex] = "unreadable"
       THEN /\ consoleErrors' = consoleErrors \cup {"FileReader error"}
            /\ error' = "An error occurred while processing the image(s)."
            /\ loading' = FALSE
            /\ awaiting' = "none"
       ELSE /\ awaiting' = "gemini"
            /\ UNCHANGED <<consoleErrors, error, loading>>
    /\ UNCHANGED <<appVars, listening, store, handlerVars, calculatorVars, extractionVars,
                   files, fileIndex, newEvents, showModal, onAddTradeArg, consoleWarnings,
                   firebaseVars>>

\* analyzeImageWithGemini settles (its catch logs a failed request): the event is
\* pushed or the file is warned about; then the FileReader of the next file, or
\* after the last file onAddTrade(newEvents) for a list that is not empty,
\* setShowModal(false) and, in finally, setLoading(false)
AnalysisSettles ==
    /\ awaiting = "gemini"
    /\ \E extracted \in {AnalyzeImageWithGemini(files[fileIndex], fileIndex)} :
       \E events \in {newEvents \o extracted} :
          /\ consoleErrors' = (IF files[fileIndex] = "unreachable"
                               THEN consoleErrors \cup {"Error calling Gemini API:"}
                               ELSE consoleErrors)
          /\ consoleWarnings' = (IF extracted = <<>>
                                 THEN consoleWarnings \cup {fileIndex}
                                 ELSE consoleWarnings)
          /\ newEvents' = events
          /\ IF fileIndex < Len(files)
             THEN /\ fileIndex' = fileIndex + 1
                  /\ awaiting' = "reader"
                  /\ UNCHANGED <<onAddTradeArg, showModal, loading>>
             ELSE /\ onAddTradeArg' = (IF Len(events) > 0 THEN events ELSE onAddTradeArg)
                  /\ showModal' = FALSE
                  /\ loading' = FALSE
                  /\ awaiting' = "none"
                  /\ UNCHANGED fileIndex
    /\ UNCHANGED <<appVars, listening, store, handlerVars, calculatorVars, extractionVars,
                   files, error, firebaseVars>>

NextUpload ==
    \/ HandleFileChange
    \/ ReaderSettles
    \/ AnalysisSettles

SpecUpload == InitUpload /\ [][NextUpload]_vars

-----------------------------------------------------------------------------
(* The state machine of the store: handleAddTrade, handleDeleteTrade and the *)
(* data listener, the collection lagging behind or running ahead of trades  *)

\* the events this program writes, as normalizeExtractedData returns them: a
\* summary of the first date and a confirmation of the last one, which lies in
\* another month
StoredDocs == { DailySummary(1, -20, -4, 480), TradeConfirmation(MaxDate, 100, 10, 10) }

\* the lists onAddTrade(newEvents) is called with: newEvents.length > 0
Batches == UNION { [1..n -> StoredDocs] : n \in 1..MaxStored }

\* startOfMonth(parseISO(date)), the first day of the month of the date
StartOfMonth(date) == date - ((date - 1) % DaysPerMonth)

\* the modal fields other than the list onAddTrade was called with
modalFields == <<files, fileIndex, awaiting, newEvents, loading, error, showModal,
                 consoleWarnings>>

\* onAddTrade(newEvents), which is handleAddTrade(newEvents), up to its first
\* await: the return of `if (!db || !userId) return`, else addDoc is called for
\* the first event.  The modal is open only when the App is rendered, which is
\* when isLoading is false; one call runs at a time.
HandleAddTrade ==
    /\ ~isLoading
    /\ adding = <<>>
    /\ \E events \in Batches :
          /\ Len(store) + Len(events) <= MaxStored
          /\ onAddTradeArg' = events
          /\ adding' = (IF db /\ userId THEN events ELSE <<>>)
    /\ UNCHANGED <<appVars, listenerVars, store, currentMonth, unhandledRejections,
                   calculatorVars, extractionVars, modalFields, firebaseVars>>

\* await addDoc(tradesCollectionRef, event) resolves: the document is in the
\* collection, at a place its date allows; addDoc is called for the next event
\* or, after the last one, setCurrentMonth(startOfMonth(parseISO(lastNewEvent.date)))
AddDocResolves ==
    /\ adding # <<>>
    /\ \E i \in 1..(Len(store) + 1) :
          /\ IsOrderedByDate(InsertAt(store, i, Head(adding)))
          /\ store' = InsertAt(store, i, Head(adding))
    /\ adding' = Tail(adding)
    /\ currentMonth' = (IF Len(adding) = 1 THEN StartOfMonth(Head(adding).date) ELSE currentMonth)
    /\ UNCHANGED <<appVars, listenerVars, unhandledRejections, calculatorVars, extractionVars,
                   modalVars, firebaseVars>>

\* a handler that catches the rejection and goes on with the next event
AddDocRejectsAndGoesOn ==
    /\ adding # <<>>
    /\ adding' = Tail(adding)
    /\ unhandledRejections' = unhandledRejections \cup {"handleAddTrade"}
    /\ UNCHANGED <<appVars, listenerVars, store, currentMonth, calculatorVars, extractionVars,
                   modalVars, firebaseVars>>

\* await addDoc(...) rejects.  handleAddTrade has no try: the await throws, the
\* rest of the loop and setCurrentMonth are not run, and the promise of the
\* handler rejects; handleFileChange calls onAddTrade(newEvents) without await
\* or catch, so that the rejection is handled by no one.
AddDocRejects ==
    /\ adding # <<>>
    /\ adding' = <<>>
    /\ unhandledRejections' = unhandledRejections \cup {"handleAddTrade"}
    /\ UNCHANGED <<appVars, listenerVars, store, currentMonth, calculatorVars, extractionVars,
                   modalVars, firebaseVars>>

\* handleDeleteTrade(tradeId) of a listed event, await deleteDoc(tradeDocRef)
\* resolving: the document, if the collection still has it, is gone
DeleteDocResolves ==
    /\ \E i \in 1..Len(trades) :
          store' = (IF \E j \in 1..Len(store) : store[j] = trades[i]
                    THEN RemoveAt(store, CHOOSE j \in 1..Len(store) : store[j] = trades[i])
                    ELSE store)
    /\ UNCHANGED <<appVars, listenerVars, handlerVars, calculatorVars, extractionVars, modalVars,
                   firebaseVars>>

\* handleDeleteTrade(tradeId) of a listed event, await deleteDoc(tradeDocRef)
\* rejecting: no try in the handler, and onClick does not take its promise
DeleteDocRejects ==
    /\ Len(trades) > 0
    /\ unhandledRejections' = unhandledRejections \cup {"handleDeleteTrade"}
    /\ UNCHANGED <<appVars, listenerVars, store, currentMonth, adding, calculatorVars,
                   extractionVars, modalVars, firebaseVars>>

\* the listener is called with the documents of the collection: the first
\* snapshot of the subscription, or the snapshot after a change
DeliverSnapshot ==
    /\ isLoading \/ trades # store
    /\ OnSnapshot(store)
    /\ UNCHANGED store

NextStore ==
    \/ HandleAddTrade
    \/ AddDocResolves
    \/ AddDocRejects
    \/ DeleteDocResolves
    \/ DeleteDocRejects
    \/ DeliverSnapshot
    \/ OnSnapshotError

SpecStore == Init /\ [][NextStore]_vars

-----------------------------------------------------------------------------
(* The state machine of the App from its mount on: the two effects, the     *)
(* sign-in, the data listener, the write handlers and the projection input  *)

\* the collection as the App finds it: it outlives the App and is public
InitialStores ==
    { docs \in UNION { [1..n -> StoredDocs] : n \in 0..MaxStored } : IsOrderedByDate(docs) }

\* the App after its first render: the useState values, no effect has run
InitApp ==
    /\ db = FALSE
    /\ userId = FALSE
    /\ initialization = "mounted"
    /\ trades = <<>>
    /\ startingCapital = InitialStartingCapital
    /\ isLoading = TRUE
    /\ listening = FALSE
    /\ consoleErrors = {}
    /\ store \in InitialStores
    /\ NoWrite
    /\ CalculatorMounted
    /\ NoExtraction
    /\ NoUpload

\* The initialization effect.  Without a configuration text that starts with
\* '{' it calls setIsLoading(false); when JSON.parse, initializeApp, getAuth or
\* getFirestore throws, the catch logs and calls setIsLoading(false); else
\* setDb(firestore), the auth observer is registered and signIn() is called.
InitializeFirebase ==
    /\ initialization = "mounted"
    /\ \/ /\ initialization' = "noConfig"
          /\ isLoading' = FALSE
          /\ UNCHANGED <<db, consoleErrors>>
       \/ /\ initialization' = "failed"
          /\ consoleErrors' = consoleErrors \cup {"Error initializing Firebase:"}
          /\ isLoading' = FALSE
          /\ UNCHANGED db
       \/ /\ initialization' = "signingIn"
          /\ db' = TRUE
          /\ UNCHANGED <<isLoading, consoleErrors>>
    /\ UNCHANGED <<trades, startingCapital, listening, store, handlerVars, calculatorVars,
                   extractionVars, modalVars, userId>>

\* await signInWithCustomToken / signInAnonymously rejects: the catch of signIn
\* logs, and nothing else is done
SignInFails ==
    /\ initialization = "signingIn"
    /\ initialization' = "signInFailed"
    /\ consoleErrors' = consoleErrors \cup {"Firebase sign-in failed:"}
    /\ UNCHANGED <<appVars, listening, store, handlerVars, calculatorVars, extractionVars,
                   modalVars, db, userId>>

\* the sign-in succeeds and the observer of onAuthStateChanged is called with
\* the user: setUserId(user.uid)
AuthStateChanged ==
    /\ initialization = "signingIn"
    /\ initialization' = "signedIn"
    /\ userId' = TRUE
    /\ UNCHANGED <<appVars, listenerVars, store, handlerVars, calculatorVars, extractionVars,
                   modalVars, db>>

\* the data listener effect, run when db and userId have changed:
\* if (db && userId) { setIsLoading(true); ... onSnapshot(q, ..., ...) }
DataListenerEffect ==
    /\ initialization = "signedIn"
    /\ db /\ userId
    /\ initialization' = "subscribed"
    /\ isLoading' = TRUE
    /\ listening' = TRUE
    /\ UNCHANGED <<trades, startingCapital, consoleErrors, store, handlerVars, calculatorVars,
                   extractionVars, modalVars, db, userId>>

\* the input of the CalculatorPage, which the App renders once neither loading
\* screen is shown
ChangeStartInvestment == ~isLoading /\ SetStartInvestment

NextApp ==
    \/ InitializeFirebase
    \/ SignInFails
    \/ AuthStateChanged
    \/ DataListenerEffect
    \/ DeliverSnapshot
    \/ OnSnapshotError
    \/ HandleAddTrade
    \/ AddDocResolves
    \/ AddDocRejects
    \/ DeleteDocResolves
    \/ DeleteDocRejects
    \/ ChangeStartInvestment

\* Effects run after the render that scheduled them; the sign-in promise
\* settles; a subscription is answered by a first snapshot or by an error.
\* Nothing obliges the user to upload or delete, or the store to answer a
\* write.
FairnessApp ==
    /\ WF_vars(InitializeFirebase)
    /\ WF_vars(SignInFails \/ AuthStateChanged)
    /\ WF_vars(DataListenerEffect)
    /\ WF_vars(DeliverSnapshot \/ OnSnapshotError)

SpecApp == InitApp /\ [][NextApp]_vars /\ FairnessApp

-----------------------------------------------------------------------------
(* Vocabulary of the properties, stated on the event list itself *)

\* the day bucket of a date: the events of that date, in list order
BucketOf(date) == SelectSeq(trades, LAMBDA e : e.date = date)

\* the distinct dates of the list
TradingDates == { trades[i].date : i \in 1..Len(trades) }

HasSummary(bucket) == \E i \in 1..Len(bucket) : bucket[i].type = "DAILY_SUMMARY"

IsFirstSummary(bucket, i) ==
    /\ bucket[i].type = "DAILY_SUMMARY"
    /\ \A j \in 1..(i - 1) : bucket[j].type # "DAILY_SUMMARY"

FirstSummary(bucket) == bucket[CHOOSE i \in 1..Len(bucket) : IsFirstSummary(bucket, i)]

\* the bucket the grouping of the list holds for a date
GroupedBucket(date) == EventsByDate(trades).buckets[date]

-----------------------------------------------------------------------------
(* C1 *)

\* C1: on every date whose bucket holds a DAILY_SUMMARY event, the calendar cell
\* resolves the pair (changeValue, changePercentage) of the first such event of
\* the bucket, and the aggregate statistics resolve its changeValue, whatever
\* TRADE_CONFIRMATION events the bucket also holds.
C1_SummaryIsAuthoritative ==
    \A date \in Dates :
        \A i \in 1..Len(BucketOf(date)) :
            IsFirstSummary(BucketOf(date), i) =>
                /\ CalendarDay(trades, date).dailyPnl = BucketOf(date)[i].changeValue
                /\ CalendarDay(trades, date).dailyTotalPercent = BucketOf(date)[i].changePercentage
                /\ AggregateDailyPnl(GroupedBucket(date)) = BucketOf(date)[i].changeValue

\* a confirmation precedes a summary on one date, and the cell shows the summary
C1_Witness ==
    \E date \in Dates :
        /\ Len(BucketOf(date)) >= 2
        /\ BucketOf(date)[1].type = "TRADE_CONFIRMATION"
        /\ BucketOf(date)[1].changeValue = Num(10)
        /\ BucketOf(date)[2].type = "DAILY_SUMMARY"
        /\ CalendarDay(trades, date).dailyPnl = Num(-20)
        /\ CalendarDay(trades, date).dailyTotalPercent = Num(-4)

-----------------------------------------------------------------------------
(* C2 *)

\* the entry the win-rate view lists for a date
WinRateEntryOf(date) ==
    LET list == WinRateModal(trades).dailyPnlList
    IN list[CHOOSE i \in 1..Len(list) : list[i].date = date]

\* C2: for every date of the event list, the calendar, the day-summary modal, the
\* history view, the win-rate view, the what-if calculator (on the dates where it
\* computes one) and the aggregate statistics resolve the same daily dollar P/L,
\* and the calendar, the day-summary modal and the calculator the same daily
\* percentage.
C2_ViewsResolveAlike ==
    \A date \in TradingDates :
        LET pnl == AggregateDailyPnl(GroupedBucket(date))
            pct == CalendarDay(trades, date).dailyTotalPercent
        IN /\ CalendarDay(trades, date).dailyPnl = pnl
           /\ SummaryViewModal(trades, date).dailyTotalPnl = pnl
           /\ HistoryDailyPnl(GroupedBucket(date)) = pnl
           /\ WinRateEntryOf(date).dailyPnl = pnl
           /\ (~HasSummary(BucketOf(date)) => CalculatorDailyPnl(GroupedBucket(date)) = pnl)
           /\ SummaryViewModal(trades, date).dailyTotalPercent = pct
           /\ CalculatorDay(GroupedBucket(date)) = pct

-----------------------------------------------------------------------------
(* C3 *)

IsConfirmation(e) == e.type = "TRADE_CONFIRMATION"

\* the changeValue of an event, 0 when it has none
ValueOrZero(e) == IF e.changeValue.t = "num" THEN e.changeValue.n ELSE 0

\* the sum of changeValue over the TRADE_CONFIRMATION events of a bucket
RECURSIVE ConfirmationSum(_)
ConfirmationSum(bucket) ==
    IF Len(bucket) = 0 THEN 0
    ELSE ConfirmationSum(SubSeq(bucket, 1, Len(bucket) - 1))
            + (IF IsConfirmation(bucket[Len(bucket)]) THEN ValueOrZero(bucket[Len(bucket)]) ELSE 0)

ConfirmationsHaveValue(bucket) ==
    \A i \in 1..Len(bucket) : IsConfirmation(bucket[i]) => bucket[i].changeValue.t = "num"

\* C3: on every date whose bucket holds no DAILY_SUMMARY event, the calendar cell
\* and the aggregate statistics resolve the sum of changeValue over exactly the
\* TRADE_CONFIRMATION events of the bucket, an event of another type adding
\* zero, and a date without events resolves to 0.
C3_SumOfConfirmationsOnly ==
    \A date \in Dates :
        (~HasSummary(BucketOf(date)) /\ ConfirmationsHaveValue(BucketOf(date))) =>
            /\ CalendarDay(trades, date).dailyPnl = Num(ConfirmationSum(BucketOf(date)))
            /\ date \in TradingDates =>
                  AggregateDailyPnl(GroupedBucket(date)) = Num(ConfirmationSum(BucketOf(date)))

-----------------------------------------------------------------------------
(* C4 *)

\* the summed costAtOpen of a bucket, an event without the field adding nothing
RECURSIVE SummedCost(_)
SummedCost(bucket) ==
    IF Len(bucket) = 0 THEN 0
    ELSE SummedCost(SubSeq(bucket, 1, Len(bucket) - 1))
            + (IF bucket[Len(bucket)].costAtOpen.t = "num" THEN bucket[Len(bucket)].costAtOpen.n ELSE 0)

\* pct is (pnl / cost) * 100 for cost > 0, and exactly 0 for cost = 0
IsPercentOf(pct, pnl, cost) ==
    /\ pct.t \in {"num", "nan"}
    /\ cost = 0 => pct = Num(0)
    /\ cost > 0 =>
          /\ pct.t = "num" <=> pnl.t = "num"
          /\ pct.t = "num" => pct.n * pnl.d * cost = 100 * pnl.n * pct.d

\* C4: on every date that has events and no DAILY_SUMMARY event, the percentage
\* the calendar cell, the day-summary modal and the calculator resolve is
\* (daily dollar P/L / summed costAtOpen) * 100 when the summed cost of the
\* bucket is greater than zero and exactly 0 when it is zero; no division by
\* zero yields an infinity or a NaN.
C4_PercentageOfSummedCost ==
    \A date \in TradingDates :
        ~HasSummary(BucketOf(date)) =>
            /\ IsPercentOf(CalendarDay(trades, date).dailyTotalPercent,
                           CalendarDay(trades, date).dailyPnl,
                           SummedCost(BucketOf(date)))
            /\ IsPercentOf(SummaryViewModal(trades, date).dailyTotalPercent,
                           SummaryViewModal(trades, date).dailyTotalPnl,
                           SummedCost(BucketOf(date)))
            /\ IsPercentOf(CalculatorDay(GroupedBucket(date)),
                           CalculatorDailyPnl(GroupedBucket(date)),
                           SummedCost(BucketOf(date)))

\* costs 100 and 50 with changes +10 and -5 on one date resolve to 5 and 10/3 %,
\* and a date whose summed cost is zero resolves to 0 %
C4_Witness ==
    /\ \E date \in TradingDates :
          /\ ~HasSummary(BucketOf(date))
          /\ SummedCost(BucketOf(date)) = 150
          /\ CalendarDay(trades, date).dailyPnl = Num(5)
          /\ CalendarDay(trades, date).dailyTotalPercent = Rat(10, 3)
    /\ \E date \in TradingDates :
          /\ ~HasSummary(BucketOf(date))
          /\ SummedCost(BucketOf(date)) = 0
          /\ SummaryViewModal(trades, date).dailyTotalPercent = Num(0)

-----------------------------------------------------------------------------
(* C5 *)

\* the resolved daily dollar P/L of a bucket: the changeValue of its first
\* DAILY_SUMMARY event, else the sum over its TRADE_CONFIRMATION events
ResolvedPnl(bucket) ==
    IF HasSummary(bucket) THEN ValueOrZero(FirstSummary(bucket)) ELSE ConfirmationSum(bucket)

RECURSIVE SumOverDates(_)
SumOverDates(dates) ==
    IF dates = {} THEN 0
    ELSE LET date == CHOOSE d \in dates : TRUE
         IN ResolvedPnl(BucketOf(date)) + SumOverDates(dates \ {date})

\* C5: pnlFromTrades is the sum, over the distinct dates of the list, of the
\* date's resolved daily dollar P/L, each date counted once: on a date with a
\* DAILY_SUMMARY event the confirmations of the date add nothing.
C5_TotalRealizedPnl ==
    AggregateStats(trades, startingCapital).pnlFromTrades = Num(SumOverDates(TradingDates))

\* +10 on one date, then a date with a +10 confirmation and a -20 summary: -10
C5_Witness ==
    /\ Cardinality(TradingDates) = 2
    /\ \E date \in TradingDates :
          /\ HasSummary(BucketOf(date))
          /\ FirstSummary(BucketOf(date)).changeValue = Num(-20)
          /\ \E i \in 1..Len(BucketOf(date)) :
                IsConfirmation(BucketOf(date)[i]) /\ BucketOf(date)[i].changeValue = Num(10)
    /\ AggregateStats(trades, startingCapital).pnlFromTrades = Num(-10)

-----------------------------------------------------------------------------
(* C6 *)

SummaryIndexes == { i \in 1..Len(trades) : trades[i].type = "DAILY_SUMMARY" }

\* C6: balanceFromTrades is the endOfDayBalance of a DAILY_SUMMARY event whose
\* date is the greatest among the DAILY_SUMMARY events when there is one, and
\* startingCapital plus the total realized P/L when there is none.
C6_CurrentBalance ==
    LET balance == AggregateStats(trades, startingCapital).balanceFromTrades
    IN IF SummaryIndexes # {}
       THEN \E i \in SummaryIndexes :
               /\ \A j \in SummaryIndexes : trades[j].date <= trades[i].date
               /\ balance = trades[i].endOfDayBalance
       ELSE balance = Num(startingCapital + SumOverDates(TradingDates))

\* a summary of balance 480, a later one of balance 505, confirmations after both
C6_Witness ==
    /\ \E i, j, k \in 1..Len(trades) :
          /\ trades[i].date < trades[j].date
          /\ trades[j].date < trades[k].date
          /\ trades[i].endOfDayBalance = Num(480)
          /\ trades[j].endOfDayBalance = Num(505)
          /\ IsConfirmation(trades[k])
          /\ trades[k].changeValue = Num(10)
    /\ AggregateStats(trades, startingCapital).balanceFromTrades = Num(505)

-----------------------------------------------------------------------------
(* C7 *)

WinningDates == { date \in TradingDates : ResolvedPnl(BucketOf(date)) > 0 }

\* 100 * wins / days, and 0 without days
RateOf(wins, days) == IF days = 0 THEN Num(0) ELSE Rat(100 * wins, days)

InPercentRange(rate) == rate.t = "num" /\ 0 <= rate.n /\ rate.n <= 100 * rate.d

\* C7: winRate of the aggregate statistics is 100 * (distinct dates whose
\* resolved daily dollar P/L is greater than zero) / (distinct dates), a date of
\* P/L zero being no win; it is 0 for a list without dates and lies in [0, 100].
\* The win-rate view reports the same ratio of the winning entries of its daily
\* list over the distinct dates.
C7_WinRate ==
    LET stats == AggregateStats(trades, startingCapital)
        modal == WinRateModal(trades)
        wins  == { i \in 1..Len(modal.dailyPnlList) : JsGt(modal.dailyPnlList[i].dailyPnl, Num(0)) }
    IN /\ stats.winRate = RateOf(Cardinality(WinningDates), Cardinality(TradingDates))
       /\ InPercentRange(stats.winRate)
       /\ modal.totalTradingDays = Cardinality(TradingDates)
       /\ modal.winningDays = Cardinality(wins)
       /\ modal.winRate = RateOf(Cardinality(wins), Cardinality(TradingDates))
       /\ InPercentRange(modal.winRate)

\* one winning date and one date whose P/L is exactly zero: 50
C7_Witness ==
    /\ Cardinality(TradingDates) = 2
    /\ \E date \in TradingDates : ResolvedPnl(BucketOf(date)) = 0 /\ ~HasSummary(BucketOf(date))
    /\ \E date \in TradingDates : ResolvedPnl(BucketOf(date)) > 0
    /\ AggregateStats(trades, startingCapital).winRate = Num(50)
    /\ WinRateModal(trades).winRate = Num(50)

-----------------------------------------------------------------------------
(* Vocabulary of the history properties *)

\* the history the modal shows, and its items in the order the dates were visited
History == PnlHistory(trades, startingCapital)

VisitedItems == HistoryItems(trades, startingCapital)

\* the net dollar effect of a date without a summary, as the history adds it:
\* the changeValue of every event of the bucket
RECURSIVE DayNet(_)
DayNet(bucket) ==
    IF Len(bucket) = 0 THEN 0
    ELSE DayNet(SubSeq(bucket, 1, Len(bucket) - 1)) + ValueOrZero(bucket[Len(bucket)])

MaxOf(dates) == CHOOSE d \in dates : \A e \in dates : e <= d

EarlierDates(date) == { d \in TradingDates : d < date }

EarlierSummaryDates(date) == { d \in EarlierDates(date) : HasSummary(BucketOf(d)) }

\* the balance annotated on the events of each date
AnnotatedBalances ==
    LET items == HistoryItems(trades, startingCapital)
    IN [date \in TradingDates |->
          items[CHOOSE i \in 1..Len(items) : items[i].date = date].endOfDayBalance]

\* the sum of the net effects of the dates after `from` up to `date`
RECURSIVE NetOfDates(_)
NetOfDates(dates) ==
    IF dates = {} THEN 0
    ELSE DayNet(BucketOf(MaxOf(dates))) + NetOfDates(dates \ {MaxOf(dates)})

-----------------------------------------------------------------------------
(* C8 *)

\* C8: every history entry of a date whose bucket holds a DAILY_SUMMARY event
\* carries that event's endOfDayBalance, whatever was accumulated before; and an
\* entry of a later date without a summary carries the endOfDayBalance of the
\* latest earlier summary plus the net effect of the dates after it.
C8_SummarySnapshotsBalance ==
    LET history == History
    IN \A i \in 1..Len(history) :
        LET date   == history[i].date
            bucket == BucketOf(date)
        IN /\ HasSummary(bucket) =>
                 history[i].endOfDayBalance = FirstSummary(bucket).endOfDayBalance
           /\ (~HasSummary(bucket) /\ EarlierSummaryDates(date) # {}) =>
                 LET snapshot == MaxOf(EarlierSummaryDates(date))
                 IN history[i].endOfDayBalance =
                       Num(FirstSummary(BucketOf(snapshot)).endOfDayBalance.n
                           + NetOfDates({ d \in TradingDates : snapshot < d /\ d <= date }))

\* +10 on a first date (510 accumulated), a summary of balance 480 on a second,
\* +10 on a third: the entries carry 480 and 490
C8_Witness ==
    /\ Len(trades) = 3
    /\ LET history == History
       IN /\ history[3].date < history[2].date
          /\ history[2].date < history[1].date
          /\ IsConfirmation(history[3]) /\ history[3].endOfDayBalance = Num(510)
          /\ history[2].type = "DAILY_SUMMARY" /\ history[2].endOfDayBalance = Num(480)
          /\ IsConfirmation(history[1]) /\ history[1].endOfDayBalance = Num(490)

-----------------------------------------------------------------------------
(* C9 *)

\* C9: the history visits the dates in ascending order and annotates every
\* event; all events of a date carry one balance; on a date without a
\* DAILY_SUMMARY event that balance is the balance of the previous date (the
\* starting capital before the first date) plus the date's dollar P/L; and the
\* entries shown carry these balances.
C9_RunningBalance ==
    LET items   == VisitedItems
        history == History
        balance == AnnotatedBalances
    IN /\ Len(items) = Len(trades)
       /\ \A i \in 1..(Len(items) - 1) : items[i].date <= items[i + 1].date
       /\ \A i \in 1..Len(items) : items[i].endOfDayBalance = balance[items[i].date]
       /\ \A i \in 1..Len(history) : history[i].endOfDayBalance = balance[history[i].date]
       /\ \A date \in TradingDates :
             ~HasSummary(BucketOf(date)) =>
                 balance[date] =
                     JsAdd(IF EarlierDates(date) = {} THEN Num(startingCapital)
                           ELSE balance[MaxOf(EarlierDates(date))],
                           Num(DayNet(BucketOf(date))))

\* +10 and -5 on one date, +10 on a later one: 505, 505 and 515
C9_Witness ==
    /\ Len(trades) = 3
    /\ LET items == VisitedItems
       IN /\ items[1].date = items[2].date
          /\ items[2].date < items[3].date
          /\ items[1].changeValue = Num(10)
          /\ items[2].changeValue = Num(-5)
          /\ items[1].endOfDayBalance = Num(505)
          /\ items[2].endOfDayBalance = Num(505)
          /\ items[3].endOfDayBalance = Num(515)

-----------------------------------------------------------------------------
(* C10 *)

\* an event without its balance annotation
Unannotated(e) == [e EXCEPT !.endOfDayBalance = Undefined]

Occurrences(s, e) == Cardinality({ i \in 1..Len(s) : Unannotated(s[i]) = e })

\* C10: the history is sorted descending by date, no entry being earlier than
\* the entry after it, and holds each event of the list exactly once.
C10_HistoryNewestFirst ==
    LET history == History
    IN /\ \A i \in 1..(Len(history) - 1) : history[i].date >= history[i + 1].date
       /\ Len(history) = Len(trades)
       /\ \A i \in 1..Len(trades) :
             Occurrences(history, Unannotated(trades[i])) = Occurrences(trades, Unannotated(trades[i]))

\* three entries over two dates, the most recent date first
C10_Witness ==
    /\ Len(trades) = 3
    /\ LET history == History
       IN /\ history[1].date > history[2].date
          /\ history[2].date = history[3].date
          /\ history[2] # history[3]

-----------------------------------------------------------------------------
(* Vocabulary of the projection properties *)

\* the daily change percentage of a date: that of the first DAILY_SUMMARY event
\* of its bucket, else the day's net change over the summed cost, in percent
DailyChange(date) ==
    LET bucket == BucketOf(date)
    IN IF HasSummary(bucket) THEN FirstSummary(bucket).changePercentage
       ELSE IF SummedCost(bucket) > 0 THEN Rat(100 * DayNet(bucket), SummedCost(bucket))
       ELSE Num(0)

\* amount times the product of (100 + p) / 100 over the dates, earliest first
RECURSIVE CompoundedOver(_, _)
CompoundedOver(amount, dates) ==
    IF dates = {} THEN amount
    ELSE LET last == MaxOf(dates)
         IN JsDiv(JsMul(CompoundedOver(amount, dates \ {last}),
                        JsAdd(Num(100), DailyChange(last))),
                  Num(100))

AllZero(result) ==
    /\ result.finalBalance = Num(0)
    /\ result.totalProfit = Num(0)
    /\ result.totalPercentage = Num(0)

-----------------------------------------------------------------------------
(* C11 *)

\* C11: for a starting amount that is a number and not negative, finalBalance is
\* the starting amount multiplied, over the distinct dates of the list in
\* ascending order, by (1 + daily change percentage / 100), the percentage being
\* the summary's own changePercentage on a date with a DAILY_SUMMARY event and
\* the cost-weighted percentage otherwise; and totalProfit is finalBalance minus
\* the starting amount.
C11_CompoundedProjection ==
    LET amount == ParseFloat(startInvestment)
        result == CalculatorPage(trades, startInvestment)
    IN (amount.t = "num" /\ amount.n >= 0) =>
          /\ result.finalBalance = CompoundedOver(amount, TradingDates)
          /\ JsAdd(result.totalProfit, amount) = result.finalBalance

\* 1000 over a date of +10 % and a later date of -10 %: 990, a profit of -10
C11_Witness ==
    /\ startInvestment = <<"1", "0", "0", "0">>
    /\ Len(trades) = 2
    /\ trades[1].date < trades[2].date
    /\ IsConfirmation(trades[1]) /\ trades[1].changeValue = Num(10) /\ trades[1].costAtOpen = Num(100)
    /\ IsConfirmation(trades[2]) /\ trades[2].changeValue = Num(-5) /\ trades[2].costAtOpen = Num(50)
    /\ CalculatorPage(trades, startInvestment).finalBalance = Num(990)
    /\ CalculatorPage(trades, startInvestment).totalProfit = Num(-10)

-----------------------------------------------------------------------------
(* C12 *)

\* C12: for a starting amount that is negative or no number, finalBalance,
\* totalProfit and totalPercentage are all 0, whatever the event list holds.
C12_RejectedStartingAmount ==
    LET amount == ParseFloat(startInvestment)
    IN (amount.t = "nan" \/ (amount.t = "num" /\ amount.n < 0)) =>
          AllZero(CalculatorPage(trades, startInvestment))

\* -5 against a list that holds a summary of +1 % and one whose percentage is NaN
C12_Witness ==
    /\ startInvestment = <<"-", "5">>
    /\ Len(trades) = 2
    /\ trades[1].changePercentage = Num(1)
    /\ trades[2].changePercentage = NaN
    /\ AllZero(CalculatorPage(trades, startInvestment))

-----------------------------------------------------------------------------
(* C13 *)

\* C13: for a starting amount of exactly 0, totalPercentage is exactly 0, and
\* finalBalance and totalProfit are 0 as well, for every event list.
C13_ZeroStartingAmount ==
    ParseFloat(startInvestment) = Num(0) =>
        AllZero(CalculatorPage(trades, startInvestment))

-----------------------------------------------------------------------------
(* C14 *)

\* C14: the grouping by date partitions the list: the keys are the distinct
\* dates of the list, each once; the bucket of a key holds exactly the events of
\* that date, each as often as the list holds it and in the order of the list;
\* no bucket is empty and the buckets together hold as many events as the list.
C14_GroupingPartitions ==
    LET eventsByDate == EventsByDate(trades)
        keys         == eventsByDate.keys
    IN /\ { keys[i] : i \in 1..Len(keys) } = TradingDates
       /\ \A i, j \in 1..Len(keys) : keys[i] = keys[j] => i = j
       /\ DOMAIN eventsByDate.buckets = TradingDates
       /\ \A date \in TradingDates :
             /\ eventsByDate.buckets[date] = SelectSeq(trades, LAMBDA e : e.date = date)
             /\ Len(eventsByDate.buckets[date]) > 0
       /\ ReduceSum([i \in 1..Len(keys) |-> Num(Len(eventsByDate.buckets[keys[i]]))])
             = Num(Len(trades))

\* two different events of one date and an event of another date between the
\* dates of the pool: buckets of two and of one, the first in list order
C14_Witness ==
    /\ Len(trades) = 3
    /\ trades[1].date = trades[2].date
    /\ trades[2].date < trades[3].date
    /\ trades[1].type = "DAILY_SUMMARY"
    /\ IsConfirmation(trades[2])
    /\ EventsByDate(trades).buckets[trades[1].date] = <<trades[1], trades[2]>>
    /\ EventsByDate(trades).buckets[trades[3].date] = <<trades[3]>>

-----------------------------------------------------------------------------
(* Vocabulary of the normalization properties *)

\* the text is YYYY-MM-DD and names a day of the calendar
IsCalendarDate(string) ==
    /\ IsISOShaped(string)
    /\ LET y   == DigitsValue(SubSeq(string, 1, 4))
           m   == DigitsValue(SubSeq(string, 6, 7))
           day == DigitsValue(SubSeq(string, 9, 10))
       IN m \in 1..12 /\ day \in 1..DaysInMonth(y, m)

\* the value is a text that names a day, in the form asked for or in another one
NamesADay(value) ==
    /\ value.k = "string"
    /\ IsCalendarDate(value.str) \/ NewDateOf(value.str).valid

IsSummaryEvent(e) == e.type = Name("DAILY_SUMMARY")

IsConfirmationEvent(e) == e.type = Name("TRADE_CONFIRMATION")

\* the numeric fields of a normalized event
NumericFields(e) ==
    IF IsSummaryEvent(e) THEN {e.changeValue, e.changePercentage, e.endOfDayBalance}
    ELSE {e.costAtOpen, e.creditAtClose, e.changeValue, e.changePercentage}

IsFiniteNumber(value) == value.k = "number" /\ value.num.t = "num"

-----------------------------------------------------------------------------
(* C15 *)

\* C15: the date of every normalized event is a text YYYY-MM-DD that names a day
\* of the calendar, and it is the current date when the date of the response is
\* missing, is no date, or is out of range (month 13, day 45).
C15_WellFormedDate ==
    \A i \in 1..Len(extractedData) :
        /\ extractedData[i].date.k = "string"
        /\ IsCalendarDate(extractedData[i].date.str)
        /\ ~NamesADay(raw.date) => extractedData[i].date = JsString(Today)

-----------------------------------------------------------------------------
(* C16 *)

\* C16: every numeric field of a normalized event, of either type, is a finite
\* number: none is NaN, infinite or undefined, a field that is missing from the
\* response or whose text is no number having become 0.
C16_FiniteNumbers ==
    \A i \in 1..Len(extractedData) :
        \A value \in NumericFields(extractedData[i]) : IsFiniteNumber(value)

-----------------------------------------------------------------------------
(* C17 *)

\* C17: in every normalized TRADE_CONFIRMATION event whose costAtOpen and
\* creditAtClose are numbers, both are greater than or equal to zero, also when
\* the cost was derived from changeValue and changePercentage.
C17_NonNegativeAmounts ==
    \A i \in 1..Len(extractedData) :
        LET e == extractedData[i]
        IN (IsConfirmationEvent(e) /\ IsFiniteNumber(e.costAtOpen) /\ IsFiniteNumber(e.creditAtClose)) =>
              /\ e.costAtOpen.num.n >= 0
              /\ e.creditAtClose.num.n >= 0

-----------------------------------------------------------------------------
(* C18 *)

\* C18: normalizing a normalized event returns the same event, for a
\* DAILY_SUMMARY and for a TRADE_CONFIRMATION event.
C18_Idempotent ==
    \A i \in 1..Len(extractedData) :
        NormalizeExtractedData(extractedData[i]) = extractedData[i]

-----------------------------------------------------------------------------
(* Vocabulary of the upload properties *)

\* the extraction of a file of this kind succeeds: the file is readable, the
\* service answers, and the response is the object of an event
Succeeds(kind) == kind = "event"

\* the events of the images of the selection whose extraction succeeds, in the
\* order of the selection
RECURSIVE EventsOfSucceeding(_, _)
EventsOfSucceeding(selection, i) ==
    IF i > Len(selection) THEN <<>>
    ELSE (IF Succeeds(selection[i])
          THEN AnalyzeImageWithGemini(selection[i], i)
          ELSE <<>>)
         \o EventsOfSucceeding(selection, i + 1)

\* handleFileChange has returned from a selection that was not empty
UploadReturned == awaiting = "none" /\ Len(files) > 0

-----------------------------------------------------------------------------
(* C19 *)

\* C19: when the upload handler has returned, the list handed to the store
\* insert holds the event of every image of the batch whose extraction
\* succeeded, and nothing for an image that failed (service unreachable,
\* response without usable fields, file not readable): a failed image is
\* skipped and the other images of the batch are still processed.
C19_FailedImageOnlySkipped ==
    UploadReturned => onAddTradeArg = EventsOfSucceeding(files, 1)

-----------------------------------------------------------------------------
(* Vocabulary of the store properties *)

\* a step in which the store fails: a write or a delete is rejected, or the
\* subscription reports an error
StoreFailure == AddDocRejects \/ DeleteDocRejects \/ OnSnapshotError

\* the step calls console.error
FailureLogged == consoleErrors' # consoleErrors

-----------------------------------------------------------------------------
(* C20 *)

\* C20: a step in which a write, a delete or the subscription fails leaves
\* trades as the last snapshot set it, so that the aggregates after the step
\* are those of that snapshot, and the failure is logged.
C20_StoreFailureLeavesSnapshot ==
    [][StoreFailure =>
          /\ trades' = trades
          /\ AggregateStats(trades', startingCapital') = AggregateStats(trades, startingCapital)
          /\ FailureLogged]_vars

-----------------------------------------------------------------------------
(* C23 *)

\* every event is of a type the program writes
OnlyLedgerTypes == \A i \in 1..Len(trades) : trades[i].type \in {"TRADE_CONFIRMATION", "DAILY_SUMMARY"}

\* C23: for every event list that is not empty and holds only events of the two
\* types the program writes, balanceFromTrades of the aggregate statistics
\* equals the running balance the history annotates on the events of the most
\* recent date, also when dates holding only confirmations come after the date
\* of the latest DAILY_SUMMARY.
C23_BalanceIsLatestHistoryBalance ==
    (Len(trades) > 0 /\ OnlyLedgerTypes) =>
        AggregateStats(trades, startingCapital).balanceFromTrades
            = AnnotatedBalances[MaxOf(TradingDates)]

-----------------------------------------------------------------------------
(* Vocabulary of the properties of the running App *)

\* a step of a write handler or of the projection input
LocalStep ==
    \/ HandleAddTrade
    \/ AddDocResolves
    \/ AddDocRejects
    \/ DeleteDocResolves
    \/ DeleteDocRejects
    \/ ChangeStartInvestment

-----------------------------------------------------------------------------
(* C21 *)

\* C21: the event list is the empty list of the mount until a step replaces it,
\* and every step that changes it is a notification of the subscribed listener
\* that sets it to the complete document list of the collection at that moment;
\* no step of a write handler or of a parameter change modifies it.
C21_OnlyCompleteSnapshots ==
    [][/\ trades' # trades => (listening /\ trades' = store /\ store' = store)
       /\ LocalStep => trades' = trades]_vars

\* the first event of a batch of two is inserted and its snapshot delivered
\* while the second insert is pending, the projection input having changed
C21_Witness ==
    /\ Len(onAddTradeArg) = 2
    /\ Len(adding) = 1
    /\ trades = store
    /\ \E i \in 1..Len(trades) : trades[i] = onAddTradeArg[1]
    /\ startInvestment # NumberToString(InitialStartingCapital)

-----------------------------------------------------------------------------
(* C22 *)

\* C22: after the mount isLoading eventually becomes false, on every path of
\* the initialization (no configuration, an initialization error, a sign-in
\* failure, a sign-in followed by the first snapshot or by a subscription
\* error); and once the subscribed listener has set it to false, it stays
\* false.
C22_LoadingEnds ==
    /\ <>(~isLoading)
    /\ [][(initialization = "subscribed" /\ ~isLoading) => ~isLoading']_vars

-----------------------------------------------------------------------------
(* C24 *)

\* the collection after the event is inserted at some place
IsInserted(before, event, after) ==
    \E i \in 1..(Len(before) + 1) : after = InsertAt(before, i, event)

\* the last event of the batch onAddTrade was called with
LastNewEvent == onAddTradeArg[Len(onAddTradeArg)]

====
